---- MODULE Spec2Model ----
(***************************************************************************)
(* CellScanner, scripts/run_prediction.py: the prediction pipeline         *)
(* predict() with its stages predict_species, the uncertainty filter,      *)
(* save_prediction_results, apply_gating, save_gating_results and          *)
(* run_heterogeneity.                                                      *)
(*                                                                         *)
(* Numbers.  Entropies, entropy thresholds and arcsinh-transformed values  *)
(* are floats in the source; here they are fixed-point integers counting   *)
(* 1/10000 units (Ln2 = 6932 stands for 0.6932).  The tables are chosen    *)
(* so that halving ln K is exact and the entropy of the uniform two-class  *)
(* distribution equals ln 2, as they are in IEEE arithmetic.               *)
(*                                                                         *)
(* Tables.  A DataFrame is a sequence of rows; a row is a function from    *)
(* column names to values.  The caller's keyword arguments are the record  *)
(* kwargs; there the absent stain (channel None) is the channel "None",    *)
(* and extra_stains = None is the empty sequence (the code skips the loop  *)
(* for None and iterates zero times over an empty mapping).                *)
(***************************************************************************)
EXTENDS Integers, Sequences, FiniteSets, TLC

\* ------------------------------------------------------------------ bounds
\* Largest number of rows (cells) of a sample table.
MaxRows == 2

\* ------------------------------------------------------- program constants
\* The "auto" sentinel of the uncertainty threshold, -1.0.
AutoSentinel == -10000
\* The arcsinh cofactor (scaling_constant, default of apply_gating).
ScalingConstant == 150

\* ------------------------------------------------------------ input domains
Channels == {"FL1", "FL2"}
RawVals == {0, 150}
NumClassesSet == {2, 3}
SpeciesNames == <<"Ecoli", "Bfragilis", "Rintestinalis">>
UncThresholds == {-20000, AutoSentinel, 0, 6932, 10986, 12000}
Relations == {">", "<", "greater_than", "less_than", "=="}
StainThresholds == {-1000, 0, 8814}

\* The classifier's output rows (model.predict), as quarters of probability.
Dists(K) ==
    IF K = 2 THEN {<<4, 0>>, <<1, 3>>, <<2, 2>>}
             ELSE {<<4, 0, 0>>, <<0, 2, 2>>, <<1, 1, 2>>}

\* ----------------------------------------------------------- pure functions
\* math.log(number_of_classes)
Ln(K) == CASE K = 1 -> 0 [] K = 2 -> 6932 [] K = 3 -> 10986 [] K = 4 -> 13864

\* -p ln p for p = q/4
PLogP(q) == CASE q = 0 -> 0 [] q = 1 -> 3466 [] q = 2 -> 3466 [] q = 3 -> 2158 [] q = 4 -> 0

RECURSIVE SumPLogP(_, _)
SumPLogP(d, i) == IF i = 0 THEN 0 ELSE PLogP(d[i]) + SumPLogP(d, i - 1)

\* scipy.stats.entropy(predictions, axis=1), one row
Entropy(d) == SumPLogP(d, Len(d))

\* np.argmax(predictions, axis=1), one row: the first index of the maximum
Argmax(d) ==
    CHOOSE i \in 1..Len(d) :
        /\ \A j \in 1..Len(d) : d[j] <= d[i]
        /\ \A j \in 1..(i - 1) : d[j] < d[i]

\* np.arcsinh(x / cofactor) of a channel intensity x
ArcsinhChannel(x, c) ==
    CASE x = -c -> -8814 [] x = 0 -> 0 [] x = c -> 8814
      [] x = 2 * c -> 14436 [] x = 3 * c -> 18184

\* np.arcsinh(u / cofactor) of an entropy u: arcsinh(z) = z to the precision
\* kept here, for 0 <= z <= ln(K) / cofactor
ArcsinhUnc(u, c) == u \div c

\* index_to_species = {index: label for index, label in enumerate(classes_)}
IndexToSpecies(classes, i) == classes[i]

\* ThresholdRejected bounding the threshold by 1, as the error message words it
ThresholdRejectedUnitBound(t, max_entropy) ==
    (t < 0 /\ t # AutoSentinel) \/ t > 10000

\* the threshold test of predict: TRUE when the raw threshold is refused
ThresholdRejected(t, max_entropy) ==
    (t < 0 /\ t # AutoSentinel) \/ t > max_entropy

\* the threshold predict goes on with
EffectiveThreshold(t, max_entropy) ==
    IF t = AutoSentinel THEN max_entropy \div 2 ELSE t

\* FilterRow relabelling a row whose uncertainty equals the threshold
FilterRowInclusive(row, threshold) ==
    IF row["uncertainties"] >= threshold
    THEN [row EXCEPT !["predictions"] = "Unknown"]
    ELSE row

\* data_df_pred.loc[uncertainties > threshold, "predictions"] = "Unknown"
FilterRow(row, threshold) ==
    IF row["uncertainties"] > threshold
    THEN [row EXCEPT !["predictions"] = "Unknown"]
    ELSE row

\* ------------------------------------------------------------------ state
VARIABLES
    kwargs,                 \* the caller's arguments of predict(**kwargs)
    pc,                     \* position in predict
    failed_stage,           \* the stage that raised, "none" while none did
    uncertainty_threshold,  \* the local of predict (overwritten by the auto rule)
    data_df_pred,           \* the prediction table
    gating_df,              \* the table apply_gating returned
    all_labels,             \* the label list apply_gating returned
    hetero_df,              \* the table handed to run_heterogeneity
    species_done,           \* run_heterogeneity: species whose loop turn ended
    hetero_res_file,        \* run_heterogeneity: data rows of the results file
    sinks,                  \* the outputs written so far, in order
    stage_log,              \* the pipeline stages completed so far, in order
    returned                \* <<>> or <<table>>: what predict returned

vars == <<kwargs, pc, failed_stage, uncertainty_threshold, data_df_pred,
          gating_df, all_labels, hetero_df, species_done, hetero_res_file,
          sinks, stage_log, returned>>

\* the locals predict unpacks from kwargs
filter_out_uncertain == kwargs.filter_out_uncertain
gating == kwargs.gating
classes == kwargs.classes
species_list == kwargs.classes
stain1 == kwargs.stain1.channel
stain1_relation == kwargs.stain1.sign
stain1_threshold == kwargs.stain1.value
stain2 == kwargs.stain2.channel
stain2_relation == kwargs.stain2.sign
stain2_threshold == kwargs.stain2.value
extra_stains == kwargs.extra_stains

NoStain == [channel |-> "None", sign |-> "None", value |-> 0]

\* ------------------------------------------------------------ DataFrames
\* df[label] = value, for one row
WithColumn(row, label, value) ==
    [c \in (DOMAIN row) \cup {label} |-> IF c = label THEN value ELSE row[c]]

HasColumn(df, label) == Len(df) > 0 /\ label \in DOMAIN df[1]

\* the arcsinh transformation of every numeric column of apply_gating
ArcsinhTable(df) ==
    [i \in 1..Len(df) |->
        [c \in DOMAIN df[i] |->
            IF c \in Channels THEN ArcsinhChannel(df[i][c], ScalingConstant)
            ELSE IF c = "uncertainties" THEN ArcsinhUnc(df[i][c], ScalingConstant)
            ELSE df[i][c]]]

\* ---------------------------------------------------------------- gating
\* PrimaryGate with inclusive comparisons
PrimaryGateInclusive(v, relation, threshold) ==
    IF relation \in {">", "greater_than"} THEN v >= threshold
    ELSE IF relation \in {"<", "less_than"} THEN v <= threshold
    ELSE FALSE

\* the comparison of a primary stain, one row
PrimaryGate(v, relation, threshold) ==
    IF relation \in {">", "greater_than"} THEN v > threshold
    ELSE IF relation \in {"<", "less_than"} THEN v < threshold
    ELSE FALSE

\* the comparison of an extra stain, one row
ExtraGate(v, sign, threshold) ==
    IF sign = ">" THEN v > threshold ELSE v < threshold

\* the boolean column of a primary stain, added to the table
PrimaryColumn(df, label, channel, relation, threshold) ==
    [i \in 1..Len(df) |->
        WithColumn(df[i], label, PrimaryGate(df[i][channel], relation, threshold))]

\* the boolean column of an extra stain, added to the table
ExtraColumn(df, label, channel, sign, threshold) ==
    [i \in 1..Len(df) |->
        WithColumn(df[i], label, ExtraGate(df[i][channel], sign, threshold))]

\* stain_sannity_check looking for a missing True only
StainSannityCheckTrueOnly(df, label) ==
    ~(\E i \in 1..Len(df) : df[i][label] = TRUE)

\* stain_sannity_check: TRUE when it raises
StainSannityCheckRaises(df, label) ==
    \/ ~(\E i \in 1..Len(df) : df[i][label] = TRUE)
    \/ ~(\E i \in 1..Len(df) : df[i][label] = FALSE)

\* the condition under which apply_gating derives the state column:
\* `if stain2 and stain2_threshold and stain1`, by Python truthiness
DerivesState(s1, s2, s2_threshold) ==
    s2 # "None" /\ s2_threshold # 0 /\ s1 # "None"

\* StateOf with a fourth state for dead rows that are no cells
StateOfDeadDebris(dead, cell) ==
    IF dead = FALSE /\ cell = TRUE THEN "live"
    ELSE IF dead = TRUE /\ cell = TRUE THEN "inactive"
    ELSE IF dead = TRUE THEN "dead"
    ELSE "debris"

\* the state of one row
StateOf(dead, cell) ==
    IF dead = FALSE /\ cell = TRUE THEN "live"
    ELSE IF dead = TRUE /\ cell = TRUE THEN "inactive"
    ELSE "debris"

\* the state column; the chained assignments gated_data_df["state"].loc[...]
\* write through to the table, as they do without pandas copy-on-write
StateColumn(df) ==
    [i \in 1..Len(df) |->
        WithColumn(df[i], "state", StateOf(df[i]["dead"], df[i]["cell"]))]

GatingRaised(wrote) ==
    [raised |-> TRUE, df |-> <<>>, labels |-> <<>>, wrote_desktop |-> wrote]

\* the loop of apply_gating over extra_stains, from entry k on
RECURSIVE ExtraStainsLoop(_, _, _, _)
ExtraStainsLoop(df, labels, extras, k) ==
    IF k > Len(extras)
    THEN [raised |-> FALSE, df |-> df, labels |-> labels, wrote_desktop |-> TRUE]
    ELSE LET e == extras[k]
             df2 == ExtraColumn(df, e.label, e.channel, e.sign, e.threshold)
         IN  IF StainSannityCheckRaises(df2, e.label)
             THEN GatingRaised(TRUE)
             ELSE ExtraStainsLoop(df2, Append(labels, e.label), extras, k + 1)

\* apply_gating(data_df, stain1, ..., stain2, ..., scaling_constant, extra_stains):
\* [raised, df, labels, wrote_desktop]
apply_gating(data_df, s1, s2, extras) ==
    LET df0 == ArcsinhTable(data_df)
        df1 == IF s1.channel # "None"
               THEN PrimaryColumn(df0, "dead", s1.channel, s1.sign, s1.value)
               ELSE df0
        labels1 == IF s1.channel # "None" THEN <<"dead">> ELSE <<>>
        raised1 == s1.channel # "None" /\ StainSannityCheckRaises(df1, "dead")
        df2 == IF s2.channel # "None"
               THEN PrimaryColumn(df1, "cell", s2.channel, s2.sign, s2.value)
               ELSE df1
        labels2 == IF s2.channel # "None" THEN Append(labels1, "cell") ELSE labels1
        raised2 == s2.channel # "None" /\ StainSannityCheckRaises(df2, "cell")
        state == DerivesState(s1.channel, s2.channel, s2.value)
        df3 == IF state THEN StateColumn(df2) ELSE df2
        labels3 == IF state THEN Append(labels2, "state") ELSE labels2
    IN  IF raised1 THEN GatingRaised(FALSE)
        ELSE IF raised2 THEN GatingRaised(FALSE)
        ELSE ExtraStainsLoop(df3, labels3, extras, 1)

\* save_gating_results: the label list after `all_labels.remove("dead");
\* all_labels.remove("cell")`, done when "state" is in the list
RemovePrimaryLabels(labels) ==
    IF \E i \in 1..Len(labels) : labels[i] = "state"
    THEN SelectSeq(labels, LAMBDA l : l # "dead" /\ l # "cell")
    ELSE labels

\* ----------------------------------------------------------- heterogeneity
\* SelectHeteroTable keeping every row of the gated table
SelectHeteroTableAllRows(df, labels) == df

\* gating_df[gating_df['state'] == 'live'] if "state" in all_labels else gating_df
SelectHeteroTable(df, labels) ==
    IF \E i \in 1..Len(labels) : labels[i] = "state"
    THEN SelectSeq(df, LAMBDA row : row["state"] = "live")
    ELSE df

\* hetero_mini_batch raises (MiniBatchKMeans cannot fit a table with no row)
\* (the value it returns, a mean distance to a fitted centroid, is not kept:
\* a row of the results file is its group and its simple heterogeneity)
HeteroRaises(df) == Len(df) = 0

\* AppendRow opening the results file to write, which empties it first
AppendRowTruncating(file, row) == <<row>>

\* with open(hetero_res_file, "a") as f: f.write(row)
AppendRow(file, row) == Append(file, row)

\* df[df['predictions'] == species]
SpeciesRows(df, species) == SelectSeq(df, LAMBDA row : row["predictions"] = species)

ColumnMax(df, c) == CHOOSE v \in {df[i][c] : i \in 1..Len(df)} :
                        \A i \in 1..Len(df) : df[i][c] <= v
ColumnMin(df, c) == CHOOSE v \in {df[i][c] : i \in 1..Len(df)} :
                        \A i \in 1..Len(df) : df[i][c] >= v

RECURSIVE SumRanges(_, _)
SumRanges(df, cols) ==
    IF cols = {} THEN 0
    ELSE LET c == CHOOSE x \in cols : TRUE
         IN  (ColumnMax(df, c) - ColumnMin(df, c)) + SumRanges(df, cols \ {c})

\* hetero_simple: the mean over the channels of (max - min), as the fraction
\* ranges / columns
hetero_simple(df) ==
    [ranges |-> SumRanges(df, Channels), columns |-> Cardinality(Channels)]

\* ------------------------------------------------------------------ sinks
Sink(name, group) == [sink |-> name, group |-> group]

\* what save_prediction_results writes, in order
PredictionSinks(filter) ==
    IF filter
    THEN <<Sink("raw_predictions", ""), Sink("prediction_counts", ""),
           Sink("uncertainty_counts", ""), Sink("species_plot", ""),
           Sink("uncertainty_plot", "")>>
    ELSE <<Sink("raw_predictions", ""), Sink("prediction_counts", ""),
           Sink("species_plot", "")>>

\* the file apply_gating writes before it turns to the extra stains
DesktopSinks == <<Sink("desktop_gated_csv", "")>>

\* what save_gating_results writes, in order
GatingSinks == <<Sink("gating_csv", ""), Sink("gating_plot", "")>>

\* what run_heterogeneity writes for one group, in order
HeteroSinks(group) ==
    <<Sink("heterogeneity_pie_chart", group), Sink("heterogeneity_bar_plot", group),
      Sink("heterogeneity_results", group)>>

\* ---------------------------------------------------------------- inputs
RawRows == [Channels -> RawVals]

\* filter_out_uncertain with uncertainty_threshold; with the filter off the
\* threshold is never read and stands at its default, the auto sentinel
UncConfigs ==
    {[filter |-> FALSE, threshold |-> AutoSentinel]}
    \cup {[filter |-> TRUE, threshold |-> t] : t \in UncThresholds}

Stain(channel, sign, value) == [channel |-> channel, sign |-> sign, value |-> value]

ExtraStain(channel, sign, threshold, label) ==
    [channel |-> channel, sign |-> sign, threshold |-> threshold, label |-> label]

\* the gating arguments predict is run with
PipelineGatingConfigs ==
    {[gating |-> FALSE, stain1 |-> NoStain, stain2 |-> NoStain, extra_stains |-> <<>>]}
    \cup {[gating |-> TRUE, stain1 |-> s1, stain2 |-> s2, extra_stains |-> <<>>] :
            s1 \in {NoStain, Stain("FL1", ">", 0)},
            s2 \in {NoStain, Stain("FL2", "<", 8814), Stain("FL2", ">", 0)}}
    \cup {[gating |-> TRUE, stain1 |-> Stain("FL1", ">", 0),
           stain2 |-> Stain("FL2", "<", 8814),
           extra_stains |-> <<ExtraStain("FL1", "<", 0, "extra1")>>]}

Init ==
    \E K \in NumClassesSet, n \in 0..MaxRows, unc \in UncConfigs,
       g \in PipelineGatingConfigs :
      \E d \in [1..n -> RawRows], m \in [1..n -> Dists(K)] :
        /\ kwargs = [classes |-> SubSeq(SpeciesNames, 1, K),
                     data_df |-> d,
                     model_predictions |-> m,
                     filter_out_uncertain |-> unc.filter,
                     uncertainty_threshold |-> unc.threshold,
                     gating |-> g.gating,
                     stain1 |-> g.stain1,
                     stain2 |-> g.stain2,
                     extra_stains |-> g.extra_stains]
        /\ pc = "threshold"
        /\ failed_stage = "none"
        /\ uncertainty_threshold = unc.threshold
        /\ data_df_pred = <<>>
        /\ gating_df = <<>>
        /\ all_labels = <<>>
        /\ hetero_df = <<>>
        /\ species_done = 0
        /\ hetero_res_file = <<>>
        /\ sinks = <<>>
        /\ stage_log = <<"RAW">>
        /\ returned = <<>>

\* --------------------------------------------------------------- actions
\* Raise caught by a handler that records the failure and runs the stage again
RaiseAndRetry(stage) ==
    /\ pc' = pc
    /\ failed_stage' = stage

\* an exception leaves predict: nothing catches it
Raise(stage) ==
    /\ pc' = "failed"
    /\ failed_stage' = stage

\* AfterSavePredictionResults gating whatever the flag says
AfterSavePredictionResultsAlwaysGating(g) == "apply_gating"

\* where predict goes on after save_prediction_results: `if gating:`
AfterSavePredictionResults(g) == IF g THEN "apply_gating" ELSE "select_hetero"

\* the validation of the uncertainty threshold
ValidateThreshold ==
    /\ pc = "threshold"
    /\ IF filter_out_uncertain
          /\ ThresholdRejected(uncertainty_threshold, Ln(Len(classes)))
       THEN /\ Raise("threshold")
            /\ UNCHANGED uncertainty_threshold
       ELSE /\ pc' = "predict_species"
            /\ uncertainty_threshold' =
                 IF filter_out_uncertain
                 THEN EffectiveThreshold(uncertainty_threshold, Ln(Len(classes)))
                 ELSE uncertainty_threshold
            /\ UNCHANGED failed_stage
    /\ UNCHANGED <<kwargs, data_df_pred, gating_df, all_labels, hetero_df,
                   species_done, hetero_res_file, sinks, stage_log, returned>>

\* predict_species and the prediction table built from its result;
\* scaler.transform raises ValueError on a table without rows
PredictSpecies ==
    /\ pc = "predict_species"
    /\ IF Len(kwargs.data_df) = 0
       THEN /\ Raise("prediction")
            /\ UNCHANGED <<data_df_pred, stage_log>>
       ELSE /\ data_df_pred' =
                 [i \in 1..Len(kwargs.data_df) |->
                    WithColumn(
                      WithColumn(kwargs.data_df[i], "predictions",
                        IndexToSpecies(classes, Argmax(kwargs.model_predictions[i]))),
                      "uncertainties", Entropy(kwargs.model_predictions[i]))]
            /\ pc' = "filter"
            /\ stage_log' = Append(stage_log, "PREDICTED")
            /\ UNCHANGED failed_stage
    /\ UNCHANGED <<kwargs, uncertainty_threshold, gating_df, all_labels, hetero_df,
                   species_done, hetero_res_file, sinks, returned>>

\* the uncertainty filter
UncertaintyFilter ==
    /\ pc = "filter"
    /\ data_df_pred' =
         IF filter_out_uncertain
         THEN [i \in 1..Len(data_df_pred) |->
                 FilterRow(data_df_pred[i], uncertainty_threshold)]
         ELSE data_df_pred
    /\ pc' = "save_prediction_results"
    /\ stage_log' = Append(stage_log, "UNCERTAINTY-FILTERED")
    /\ UNCHANGED <<kwargs, failed_stage, uncertainty_threshold, gating_df, all_labels,
                   hetero_df, species_done, hetero_res_file, sinks, returned>>

\* save_prediction_results
SavePredictionResults ==
    /\ pc = "save_prediction_results"
    /\ sinks' = sinks \o PredictionSinks(filter_out_uncertain)
    /\ pc' = AfterSavePredictionResults(gating)
    /\ UNCHANGED <<kwargs, failed_stage, uncertainty_threshold, data_df_pred, gating_df,
                   all_labels, hetero_df, species_done, hetero_res_file, stage_log,
                   returned>>

\* gating_df, all_labels = apply_gating(data_df_pred, ...)
ApplyGating ==
    /\ pc = "apply_gating"
    /\ LET r == apply_gating(data_df_pred, kwargs.stain1, kwargs.stain2, extra_stains)
       IN  /\ sinks' = IF r.wrote_desktop THEN sinks \o DesktopSinks ELSE sinks
           /\ IF r.raised
              THEN /\ Raise("gating")
                   /\ UNCHANGED <<gating_df, all_labels, stage_log>>
              ELSE /\ gating_df' = r.df
                   /\ all_labels' = r.labels
                   /\ pc' = "save_gating_results"
                   /\ stage_log' = Append(stage_log, "GATED")
                   /\ UNCHANGED failed_stage
    /\ UNCHANGED <<kwargs, uncertainty_threshold, data_df_pred, hetero_df,
                   species_done, hetero_res_file, returned>>

\* save_gating_results, which edits the label list in place
SaveGatingResults ==
    /\ pc = "save_gating_results"
    /\ all_labels' = RemovePrimaryLabels(all_labels)
    /\ sinks' = sinks \o GatingSinks
    /\ pc' = "select_hetero"
    /\ UNCHANGED <<kwargs, failed_stage, uncertainty_threshold, data_df_pred, gating_df,
                   hetero_df, species_done, hetero_res_file, stage_log, returned>>

\* the choice of the table heterogeneity is computed on
SelectHetero ==
    /\ pc = "select_hetero"
    /\ hetero_df' = IF gating THEN SelectHeteroTable(gating_df, all_labels)
                    ELSE data_df_pred
    /\ pc' = "run_heterogeneity"
    /\ UNCHANGED <<kwargs, failed_stage, uncertainty_threshold, data_df_pred, gating_df,
                   all_labels, species_done, hetero_res_file, sinks, stage_log, returned>>

\* run_heterogeneity up to the aggregate row of the results file
HeterogeneityOverall ==
    /\ pc = "run_heterogeneity"
    /\ IF HeteroRaises(hetero_df)
       THEN /\ Raise("heterogeneity")
            /\ UNCHANGED <<hetero_res_file, sinks>>
       ELSE /\ sinks' = sinks \o HeteroSinks("Coculture overall")
            /\ hetero_res_file' =
                 <<[group |-> "Coculture overall", simple |-> hetero_simple(hetero_df)]>>
            /\ pc' = "hetero_species"
            /\ UNCHANGED failed_stage
    /\ UNCHANGED <<kwargs, uncertainty_threshold, data_df_pred, gating_df, all_labels,
                   hetero_df, species_done, stage_log, returned>>

\* one turn of the loop of run_heterogeneity over species_list
HeterogeneitySpecies ==
    /\ pc = "hetero_species"
    /\ species_done < Len(species_list)
    /\ LET species == species_list[species_done + 1]
           df == SpeciesRows(hetero_df, species)
       IN  IF HeteroRaises(df)
           THEN /\ Raise("heterogeneity")
                /\ UNCHANGED <<hetero_res_file, sinks, species_done>>
           ELSE /\ sinks' = sinks \o HeteroSinks(species)
                /\ hetero_res_file' =
                     AppendRow(hetero_res_file,
                               [group |-> species, simple |-> hetero_simple(df)])
                /\ species_done' = species_done + 1
                /\ UNCHANGED <<pc, failed_stage>>
    /\ UNCHANGED <<kwargs, uncertainty_threshold, data_df_pred, gating_df, all_labels,
                   hetero_df, stage_log, returned>>

\* run_heterogeneity returns after the last species
HeterogeneityDone ==
    /\ pc = "hetero_species"
    /\ species_done = Len(species_list)
    /\ pc' = "return"
    /\ stage_log' = Append(stage_log, "HETEROGENEITY-COMPUTED")
    /\ UNCHANGED <<kwargs, failed_stage, uncertainty_threshold, data_df_pred, gating_df,
                   all_labels, hetero_df, species_done, hetero_res_file, sinks, returned>>

\* `if not gui: return data_df_pred`
Return ==
    /\ pc = "return"
    /\ returned' = <<data_df_pred>>
    /\ pc' = "done"
    /\ UNCHANGED <<kwargs, failed_stage, uncertainty_threshold, data_df_pred, gating_df,
                   all_labels, hetero_df, species_done, hetero_res_file, sinks, stage_log>>

Next ==
    \/ ValidateThreshold
    \/ PredictSpecies
    \/ UncertaintyFilter
    \/ SavePredictionResults
    \/ ApplyGating
    \/ SaveGatingResults
    \/ SelectHetero
    \/ HeterogeneityOverall
    \/ HeterogeneitySpecies
    \/ HeterogeneityDone
    \/ Return

Spec == Init /\ [][Next]_vars

\* ------------------------------------------------ apply_gating on its own
\* the stain arguments apply_gating is run with
PrimaryStains(channel) ==
    {NoStain} \cup {Stain(channel, r, t) : r \in Relations, t \in StainThresholds}

Extra1Ok == ExtraStain("FL1", "<", 8814, "extra1")
Extra2Ok == ExtraStain("FL2", ">", 0, "extra2")

GatingConfigs ==
    {[stain1 |-> s1, stain2 |-> s2, extra_stains |-> e] :
        s1 \in PrimaryStains("FL1"), s2 \in PrimaryStains("FL2"),
        e \in {<<>>, <<Extra1Ok>>, <<Extra1Ok, Extra2Ok>>, <<Extra2Ok, Extra1Ok>>}}
    \cup
    {[stain1 |-> s1, stain2 |-> s2, extra_stains |-> e] :
        s1 \in {NoStain, Stain("FL1", ">", 0)},
        s2 \in {NoStain, Stain("FL2", "<", 8814)},
        e \in {<<ExtraStain(c, r, t, "extra1")>> :
                 c \in Channels, r \in Relations, t \in StainThresholds}
              \cup {<<ExtraStain("FL1", r, t, "extra1"), Extra2Ok>> :
                      r \in Relations, t \in StainThresholds}}

\* predict has saved the prediction results of a table whose rows are all
\* predicted as the first species with certainty, and turns to gating
InitGating ==
    \E n \in 0..MaxRows, g \in GatingConfigs :
      \E d \in [1..n -> RawRows] :
        /\ kwargs = [classes |-> SubSeq(SpeciesNames, 1, 2),
                     data_df |-> d,
                     model_predictions |-> [i \in 1..n |-> <<4, 0>>],
                     filter_out_uncertain |-> FALSE,
                     uncertainty_threshold |-> AutoSentinel,
                     gating |-> TRUE,
                     stain1 |-> g.stain1,
                     stain2 |-> g.stain2,
                     extra_stains |-> g.extra_stains]
        /\ pc = "apply_gating"
        /\ failed_stage = "none"
        /\ uncertainty_threshold = AutoSentinel
        /\ data_df_pred =
             [i \in 1..n |->
                WithColumn(WithColumn(d[i], "predictions", SpeciesNames[1]),
                           "uncertainties", 0)]
        /\ gating_df = <<>>
        /\ all_labels = <<>>
        /\ hetero_df = <<>>
        /\ species_done = 0
        /\ hetero_res_file = <<>>
        /\ sinks = PredictionSinks(FALSE)
        /\ stage_log = <<"RAW", "PREDICTED", "UNCERTAINTY-FILTERED">>
        /\ returned = <<>>

NextGating ==
    \/ ApplyGating
    \/ SaveGatingResults

SpecGating == InitGating /\ [][NextGating]_vars

\* ================================================================ claims
Contains(seq, x) == \E i \in 1..Len(seq) : seq[i] = x

IsPrefix(p, q) == Len(p) <= Len(q) /\ SubSeq(q, 1, Len(p)) = p

\* the threshold the caller passed and the largest entropy of K species
RawThreshold == kwargs.uncertainty_threshold
MaxEntropy == Ln(Len(kwargs.classes))
ThresholdStepDone == pc # "threshold"
ThresholdAccepted == ThresholdStepDone /\ failed_stage # "threshold"

\* C1: with filtering enabled, the auto sentinel -1 gives the effective
\* threshold 0.5 * ln K exactly; any other raw threshold t is accepted and used
\* unchanged iff 0 <= t <= ln K; every other raw threshold makes predict fail
\* before anything is predicted or filtered.
C1_ThresholdPolicy ==
    (filter_out_uncertain /\ ThresholdStepDone) =>
        /\ RawThreshold = AutoSentinel =>
              ThresholdAccepted /\ 2 * uncertainty_threshold = MaxEntropy
        /\ RawThreshold # AutoSentinel =>
              ((ThresholdAccepted /\ uncertainty_threshold = RawThreshold)
                 <=> (0 <= RawThreshold /\ RawThreshold <= MaxEntropy))
        /\ (RawThreshold # AutoSentinel
              /\ ~(0 <= RawThreshold /\ RawThreshold <= MaxEntropy)) =>
              /\ pc = "failed"
              /\ failed_stage = "threshold"
              /\ data_df_pred = <<>>

\* C1 witness: the sentinel was resolved to half of ln 3.
C1_Witness ==
    /\ filter_out_uncertain
    /\ RawThreshold = AutoSentinel
    /\ Len(kwargs.classes) = 3
    /\ pc = "predict_species"
    /\ uncertainty_threshold = 5493

FilterStepDone == Contains(stage_log, "UNCERTAINTY-FILTERED")

\* C2: after the filter step every row is "Unknown" exactly when filtering is
\* enabled and its uncertainty is strictly greater than the effective
\* threshold, and otherwise carries the species of the arg-max index; its
\* uncertainty is the entropy computed before the filter.
C2_FilterRelabels ==
    FilterStepDone =>
        /\ Len(data_df_pred) = Len(kwargs.data_df)
        /\ \A i \in 1..Len(data_df_pred) :
             LET d == kwargs.model_predictions[i]
             IN  /\ data_df_pred[i]["uncertainties"] = Entropy(d)
                 /\ data_df_pred[i]["predictions"] =
                      IF filter_out_uncertain /\ Entropy(d) > uncertainty_threshold
                      THEN "Unknown"
                      ELSE kwargs.classes[Argmax(d)]

\* C2 witness: a filtered table with a row at the threshold that kept its
\* species and a row above it that became "Unknown".
C2_Witness ==
    /\ FilterStepDone
    /\ filter_out_uncertain
    /\ \E i, j \in 1..Len(data_df_pred) :
         /\ data_df_pred[i]["uncertainties"] = uncertainty_threshold
         /\ data_df_pred[i]["predictions"] # "Unknown"
         /\ data_df_pred[j]["uncertainties"] > uncertainty_threshold
         /\ data_df_pred[j]["predictions"] = "Unknown"

GatingReturned == Contains(stage_log, "GATED")

\* the arcsinh-transformed value of channel c in row i of the table gated
GatedValue(i, c) == ArcsinhChannel(data_df_pred[i][c], ScalingConstant)

\* the comparison the claim C3 words: greater than, and less than otherwise
Compared(v, relation, threshold) ==
    IF relation \in {">", "greater_than"} THEN v > threshold ELSE v < threshold

\* C3: in a table apply_gating returned, the column of a primary stain (dead
\* for stain 1, cell for stain 2) is True for a row exactly when the row's
\* arcsinh-transformed channel value is strictly greater than the threshold
\* under the relation greater, strictly less otherwise; a value equal to the
\* threshold gives False.
C3_PrimaryColumns ==
    GatingReturned =>
        /\ stain1 # "None" =>
             \A i \in 1..Len(gating_df) :
                 gating_df[i]["dead"] =
                     Compared(GatedValue(i, stain1), stain1_relation, stain1_threshold)
        /\ stain2 # "None" =>
             \A i \in 1..Len(gating_df) :
                 gating_df[i]["cell"] =
                     Compared(GatedValue(i, stain2), stain2_relation, stain2_threshold)
        /\ \A i \in 1..Len(gating_df) :
             /\ (stain1 # "None" /\ GatedValue(i, stain1) = stain1_threshold)
                   => gating_df[i]["dead"] = FALSE
             /\ (stain2 # "None" /\ GatedValue(i, stain2) = stain2_threshold)
                   => gating_df[i]["cell"] = FALSE

\* C3 witness: a returned table gated by greater_than on stain 1 and less_than
\* on stain 2, with a row at each threshold.
C3_Witness ==
    /\ GatingReturned
    /\ stain1 # "None" /\ stain1_relation = "greater_than"
    /\ stain2 # "None" /\ stain2_relation = "less_than"
    /\ \E i, j \in 1..Len(gating_df) :
         /\ GatedValue(i, stain1) = stain1_threshold
         /\ GatedValue(j, stain2) = stain2_threshold
         /\ gating_df[j]["dead"] = TRUE

\* the boolean columns of the stains configured, as the code compares them
ComparedColumns ==
    LET df == ArcsinhTable(data_df_pred)
    IN  (IF stain1 # "None"
         THEN {[i \in 1..Len(df) |->
                  PrimaryGate(df[i][stain1], stain1_relation, stain1_threshold)]}
         ELSE {})
        \cup
        (IF stain2 # "None"
         THEN {[i \in 1..Len(df) |->
                  PrimaryGate(df[i][stain2], stain2_relation, stain2_threshold)]}
         ELSE {})
        \cup
        {[i \in 1..Len(df) |->
            ExtraGate(df[i][extra_stains[k].channel], extra_stains[k].sign,
                      extra_stains[k].threshold)] : k \in 1..Len(extra_stains)}

Uniform(col) == (\A i \in 1..Len(col) : col[i]) \/ (\A i \in 1..Len(col) : ~col[i])

GeneratedLabels ==
    (IF stain1 # "None" THEN {"dead"} ELSE {})
    \cup (IF stain2 # "None" THEN {"cell"} ELSE {})
    \cup {extra_stains[k].label : k \in 1..Len(extra_stains)}

GatingStepDone == gating /\ pc \notin {"threshold", "predict_species", "filter",
                                       "save_prediction_results", "apply_gating"}
                         /\ failed_stage \notin {"threshold", "prediction"}

\* C4: apply_gating returns a table only if every gate column it generated
\* holds a True and a False; if the comparison of any configured stain is True
\* for all rows or False for all rows, it raises and returns no table.
C4_SanityCheck ==
    /\ GatingReturned =>
         \A l \in GeneratedLabels :
             /\ \E i \in 1..Len(gating_df) : gating_df[i][l] = TRUE
             /\ \E i \in 1..Len(gating_df) : gating_df[i][l] = FALSE
    /\ (GatingStepDone /\ \E col \in ComparedColumns : Uniform(col)) =>
         /\ pc = "failed"
         /\ failed_stage = "gating"
         /\ gating_df = <<>>
         /\ all_labels = <<>>

\* C4 witness: both primary stains passed the check and an extra stain that is
\* True for every row made apply_gating raise.
C4_Witness ==
    /\ pc = "failed"
    /\ failed_stage = "gating"
    /\ stain1 # "None" /\ stain2 # "None"
    /\ Len(extra_stains) = 1
    /\ LET df == ArcsinhTable(data_df_pred)
       IN  /\ Len(df) = 2
           /\ \A i \in 1..Len(df) :
                ExtraGate(df[i][extra_stains[1].channel], extra_stains[1].sign,
                          extra_stains[1].threshold)
           /\ \A k \in 1..2 :
                ~Uniform([i \in 1..Len(df) |->
                    PrimaryGate(df[i][kwargs[IF k = 1 THEN "stain1" ELSE "stain2"].channel],
                                kwargs[IF k = 1 THEN "stain1" ELSE "stain2"].sign,
                                kwargs[IF k = 1 THEN "stain1" ELSE "stain2"].value)])

\* C5: whenever the gated table has a state column, each row's state follows
\* from its two primary gates alone: live iff not dead and cell, inactive iff
\* dead and cell, debris iff not cell; there is no other state.
C5_StateDerivation ==
    (GatingReturned /\ HasColumn(gating_df, "state")) =>
        \A i \in 1..Len(gating_df) :
            LET row == gating_df[i]
            IN  /\ row["state"] \in {"live", "inactive", "debris"}
                /\ row["state"] = "live" <=> (~row["dead"] /\ row["cell"])
                /\ row["state"] = "inactive" <=> (row["dead"] /\ row["cell"])
                /\ row["state"] = "debris" <=> ~row["cell"]

\* C5 witness: a gated table with a live row and a dead row that is no cell,
\* which is debris.
C5_Witness ==
    /\ GatingReturned
    /\ HasColumn(gating_df, "state")
    /\ \E i, j \in 1..Len(gating_df) :
         /\ gating_df[i]["state"] = "live"
         /\ gating_df[j]["dead"] /\ ~gating_df[j]["cell"]
         /\ gating_df[j]["state"] = "debris"

BothPrimaryStains == stain1 # "None" /\ stain2 # "None"

ExtraLabels == [k \in 1..Len(extra_stains) |-> extra_stains[k].label]

\* C6: for every configuration apply_gating accepts, the gated table has a
\* state column, and state is in the label list, if and only if both primary
\* stains are configured, whatever the threshold of the second stain.
C6_StateIffBothStains ==
    GatingReturned =>
        ((HasColumn(gating_df, "state") /\ Contains(all_labels, "state"))
            <=> BothPrimaryStains)

\* C7: once the label list has gone through save_gating_results, it is state
\* followed by the extra-stain labels in their configured order when both
\* primary stains are configured, without dead and cell; when state is not
\* produced it is the primary labels generated followed by the extra labels.
C7_LabelList ==
    (gating /\ pc = "select_hetero") =>
        /\ BothPrimaryStains => all_labels = <<"state">> \o ExtraLabels
        /\ ~Contains(all_labels, "state") =>
             all_labels = (IF stain1 # "None" THEN <<"dead">> ELSE <<>>)
                          \o (IF stain2 # "None" THEN <<"cell">> ELSE <<>>)
                          \o ExtraLabels

HeteroInputChosen ==
    \/ pc \in {"run_heterogeneity", "hetero_species", "return", "done"}
    \/ failed_stage = "heterogeneity"

\* C8: the table handed to the heterogeneity computation is the filtered
\* prediction table when gating is disabled, exactly the live rows of the
\* gated table when gating produced a state label, and the whole gated table
\* when gating ran without producing one.
C8_HeteroInput ==
    HeteroInputChosen =>
        hetero_df =
            IF ~gating THEN data_df_pred
            ELSE IF Contains(all_labels, "state")
                 THEN SelectSeq(gating_df, LAMBDA row : row["state"] = "live")
                 ELSE gating_df

\* C8 witness: gating produced a state label and heterogeneity got the one
\* live row of a gated table of two rows.
C8_Witness ==
    /\ HeteroInputChosen
    /\ gating
    /\ Contains(all_labels, "state")
    /\ Len(gating_df) = 2
    /\ Len(hetero_df) = 1
    /\ hetero_df[1]["state"] = "live"

\* the stages of a run, in order
ExpectedStages ==
    IF gating
    THEN <<"RAW", "PREDICTED", "UNCERTAINTY-FILTERED", "GATED", "HETEROGENEITY-COMPUTED">>
    ELSE <<"RAW", "PREDICTED", "UNCERTAINTY-FILTERED", "HETEROGENEITY-COMPUTED">>

HeterogeneityStarted ==
    \/ pc \in {"hetero_species", "return", "done"}
    \/ failed_stage = "heterogeneity"

\* everything written before run_heterogeneity is called
SinksBeforeHeterogeneity ==
    PredictionSinks(filter_out_uncertain)
    \o (IF gating THEN DesktopSinks \o GatingSinks ELSE <<>>)

\* C9 as claimed: the stages are passed in the fixed order, none twice, and
\* nothing is written to an output sink before the heterogeneity computation
\* is over.
C9_PersistAfterHeterogeneity ==
    /\ IsPrefix(stage_log, ExpectedStages)
    /\ sinks # <<>> => Contains(stage_log, "HETEROGENEITY-COMPUTED")

\* C9 as amended: the stages RAW, PREDICTED, UNCERTAINTY-FILTERED, GATED (only
\* when gating is enabled), HETEROGENEITY-COMPUTED are passed in this order,
\* none twice; writing is no stage of its own after heterogeneity: nothing is
\* written before the uncertainty filter is over, the prediction results are
\* written before gating, the gating results before heterogeneity starts, and
\* only the heterogeneity results are written after that.
C9_StageOrder ==
    /\ IsPrefix(stage_log, ExpectedStages)
    /\ Contains(stage_log, "GATED") => gating
    /\ ~Contains(stage_log, "UNCERTAINTY-FILTERED") => sinks = <<>>
    /\ Contains(stage_log, "GATED") =>
         IsPrefix(PredictionSinks(filter_out_uncertain) \o DesktopSinks, sinks)
    /\ pc = "run_heterogeneity" => sinks = SinksBeforeHeterogeneity
    /\ HeterogeneityStarted =>
         /\ IsPrefix(SinksBeforeHeterogeneity, sinks)
         /\ \A k \in (Len(SinksBeforeHeterogeneity) + 1)..Len(sinks) :
              sinks[k].sink \in {"heterogeneity_pie_chart", "heterogeneity_bar_plot",
                                 "heterogeneity_results"}
    /\ pc = "done" => stage_log = ExpectedStages

\* C9 witness: a gated run is over; the prediction and gating results were
\* written before the heterogeneity results.
C9_Witness ==
    /\ pc = "done"
    /\ gating
    /\ stage_log = ExpectedStages
    /\ Len(sinks) > Len(SinksBeforeHeterogeneity)

\* the stages that are over when the given stage raises
StagesBefore(stage) ==
    CASE stage = "threshold" -> <<"RAW">>
      [] stage = "prediction" -> <<"RAW">>
      [] stage = "gating" -> <<"RAW", "PREDICTED", "UNCERTAINTY-FILTERED">>
      [] stage = "heterogeneity" ->
           IF gating THEN <<"RAW", "PREDICTED", "UNCERTAINTY-FILTERED", "GATED">>
           ELSE <<"RAW", "PREDICTED", "UNCERTAINTY-FILTERED">>

\* what run_heterogeneity wrote for the first k rows of the results file
RECURSIVE HeteroSinksWritten(_)
HeteroSinksWritten(k) ==
    IF k = 0 THEN <<>>
    ELSE HeteroSinksWritten(k - 1) \o HeteroSinks(hetero_res_file[k].group)

\* the gating stage got past the primary stains and wrote its table before
\* an extra stain failed the check
GatingWroteDesktop ==
    LET df == ArcsinhTable(data_df_pred)
    IN  /\ stain1 # "None" =>
             ~Uniform([i \in 1..Len(df) |->
                 PrimaryGate(df[i][stain1], stain1_relation, stain1_threshold)])
        /\ stain2 # "None" =>
             ~Uniform([i \in 1..Len(df) |->
                 PrimaryGate(df[i][stain2], stain2_relation, stain2_threshold)])

\* the outputs written by the stages that were over when the given stage
\* raised, and by the part of that stage that was over
SinksWhenFailed(stage) ==
    CASE stage = "threshold" -> <<>>
      [] stage = "prediction" -> <<>>
      [] stage = "gating" ->
           PredictionSinks(filter_out_uncertain)
           \o (IF GatingWroteDesktop THEN DesktopSinks ELSE <<>>)
      [] stage = "heterogeneity" ->
           SinksBeforeHeterogeneity \o HeteroSinksWritten(Len(hetero_res_file))

\* C10: when a stage of predict fails the run ends there: no later stage is
\* run, nothing more is written, the stage is not retried, predict returns no
\* table, and what was written before is left as written.
C10_FailureEndsRun ==
    /\ failed_stage # "none" <=> pc = "failed"
    /\ pc = "failed" =>
         /\ ~ENABLED Next
         /\ returned = <<>>
         /\ stage_log = StagesBefore(failed_stage)
         /\ sinks = SinksWhenFailed(failed_stage)

\* C10 witness: heterogeneity failed at the second species of a gated run,
\* after the rows of the whole sample and of the first species were written.
C10_Witness ==
    /\ pc = "failed"
    /\ failed_stage = "heterogeneity"
    /\ gating
    /\ Len(hetero_res_file) = 2
    /\ Len(sinks) = Len(SinksBeforeHeterogeneity) + 6

\* the rows of the table run_heterogeneity works on that are predicted as the
\* k-th species of the list
RowsOfSpecies(k) ==
    SelectSeq(hetero_df, LAMBDA row : row["predictions"] = species_list[k])

\* C11: once the results file exists its data rows are the aggregate row
\* followed by one row for each species of a prefix of the species list, in
\* the order of the list, no group twice; when run_heterogeneity has returned
\* there is a row for every species; when the metrics of a species cannot be
\* computed (no row is predicted as it) run_heterogeneity raises, no row of
\* that species or a later one is written, and the rows written before stay.
C11_ResultsFileRows ==
    /\ hetero_res_file # <<>> =>
         /\ Len(hetero_res_file) <= Len(species_list) + 1
         /\ species_done = Len(hetero_res_file) - 1
         /\ hetero_res_file[1] =
              [group |-> "Coculture overall", simple |-> hetero_simple(hetero_df)]
         /\ \A k \in 1..(Len(hetero_res_file) - 1) :
              /\ RowsOfSpecies(k) # <<>>
              /\ hetero_res_file[k + 1] =
                   [group |-> species_list[k], simple |-> hetero_simple(RowsOfSpecies(k))]
         /\ \A j, k \in 1..Len(hetero_res_file) :
              hetero_res_file[j].group = hetero_res_file[k].group => j = k
    /\ pc \in {"return", "done"} => Len(hetero_res_file) = Len(species_list) + 1
    /\ (failed_stage = "heterogeneity" /\ hetero_res_file # <<>>) =>
         /\ Len(hetero_res_file) <= Len(species_list)
         /\ RowsOfSpecies(Len(hetero_res_file)) = <<>>

\* C11 witness: with three species, the rows of the whole sample and of the
\* first two species are in the file when the third, which no row is
\* predicted as, makes run_heterogeneity raise.
C11_Witness ==
    /\ failed_stage = "heterogeneity"
    /\ Len(species_list) = 3
    /\ Len(hetero_res_file) = 3
    /\ hetero_res_file[2].group = species_list[1]
    /\ hetero_res_file[3].group = species_list[2]

\* the column a primary stain with the arguments of the k-th extra stain gives
AsPrimaryColumn(k) ==
    LET df == ArcsinhTable(data_df_pred)
        e == extra_stains[k]
    IN  [i \in 1..Len(df) |-> PrimaryGate(df[i][e.channel], e.sign, e.threshold)]

\* C12: an extra stain has the outcome of a primary stain with the same
\* channel, relation and threshold: in a returned table its column holds on
\* every row the value the primary comparison gives, and apply_gating raises
\* over an extra stain exactly when the sanity check of that primary column
\* would raise.
C12_ExtraLikePrimary ==
    /\ GatingReturned =>
         \A k \in 1..Len(extra_stains) :
             /\ ~Uniform(AsPrimaryColumn(k))
             /\ \A i \in 1..Len(gating_df) :
                  gating_df[i][extra_stains[k].label] = AsPrimaryColumn(k)[i]
    /\ (pc = "failed" /\ failed_stage = "gating" /\ GatingWroteDesktop) =>
         \E k \in 1..Len(extra_stains) : Uniform(AsPrimaryColumn(k))

====
